---- MODULE Spec2Model ----
(***************************************************************************)
(* Host side of the eBPF MNIST inference exchange (infer.py): main writes  *)
(* the image into the input map, triggers the kernel program, reads the    *)
(* trace pipe for a marker, sleeps, looks the output map up with bpftool,  *)
(* decodes the JSON answer into int32 values and takes the argmax.         *)
(*                                                                         *)
(* Two requests (two runs of main) share the pinned maps and the trace     *)
(* pipe.  The kernel program, bpftool's exit status and answer, the trace  *)
(* pipe's content and the host's byte order are the environment.           *)
(***************************************************************************)
EXTENDS Integers, Sequences, FiniteSets, TLC

\* ------------------------------------------------------------- constants
InputDim == 784
OutputBytes == 40
ItemSize == 4
OutputDim == 10
MapKey == 0
Timeout == 1

\* --------------------------------------------------------------- bounds
\* clock ticks per second of wall-clock time
TicksPerSecond == 2
\* lines the trace pipe can hold unread
MaxFeed == 1
\* value lists of up to OutputBytes + MaxExtra bytes are decoded
MaxExtra == 4
\* elements of a JSON list answer
MaxItems == 2

Req == {"r1", "r2"}
Other(r) == IF r = "r1" THEN "r2" ELSE "r1"

INPUT_MAP_PATH == "/sys/fs/bpf/mnist_input"
OUTPUT_MAP_PATH == "/sys/fs/bpf/mnist_output"

VARIABLES
    pc,          \* each run's position in main
    flatSize,    \* flat.size of each run's decoded image (0 before load_image)
    inputMap,    \* the input map's record at key 0: [img, len]
    outputMap,   \* the output map's record at key 0: a byte list
    execPending, \* the run has triggered and the kernel program has not run since
    feed,        \* unread lines of the trace pipe
    elapsed,     \* time.time() - start of each run's trace check, in ticks, capped
    found,       \* check_kernel_trace's result
    outData,     \* the parsed JSON of lookup_map's stdout
    output,      \* parse_output's array
    label,       \* predicted_digit (-1: none)
    err,         \* the error that ended the run ("none": none)
    log,         \* the calls main has made, in order
    toolLog,     \* the bpftool invocations of the run, in order
    serial,      \* no update has been issued while another request was in flight
    hostOrder    \* the host's byte order

vars == <<pc, flatSize, inputMap, outputMap, execPending, feed, elapsed, found,
          outData, output, label, err, log, toolLog, serial, hostOrder>>

\* ---------------------------------------------------------------- bytes
ByteSamples == {1, 127, 128}
FillSamples == {0, 255}

\* a byte list of n bytes, all fill but for v at p and w at q
ValueList(n, fill, p, v, q, w) ==
    [i \in 1..n |-> IF i = p THEN v ELSE IF i = q THEN w ELSE fill]

\* key.to_bytes(4, byteorder="little")
KeyBytes(key) ==
    <<key % 256, (key \div 256) % 256, (key \div 65536) % 256,
      (key \div 16777216) % 256>>

\* the two's-complement int32 of four bytes, least significant first
Int32(b0, b1, b2, b3) ==
    (IF b3 >= 128 THEN b3 - 256 ELSE b3) * 16777216 + b2 * 65536 + b1 * 256 + b0

\* one element of np.frombuffer(..., dtype=np.int32): native byte order
NativeInt32(order, b, k) ==
    IF order = "little"
    THEN Int32(b[ItemSize * k + 1], b[ItemSize * k + 2],
               b[ItemSize * k + 3], b[ItemSize * k + 4])
    ELSE Int32(b[ItemSize * k + 4], b[ItemSize * k + 3],
               b[ItemSize * k + 2], b[ItemSize * k + 1])

\* ------------------------------------------------------- the JSON answer
NoData == [kind |-> "none", n |-> 0, hasValue |-> FALSE, value |-> <<>>]
\* an object, with or without a "value" byte list
Obj(hasValue, value) ==
    [kind |-> "obj", n |-> 1, hasValue |-> hasValue,
     value |-> IF hasValue THEN value ELSE <<>>]
\* a list of n elements; hasValue and value describe its first element
List(n, hasValue, value) ==
    [kind |-> "list", n |-> n, hasValue |-> n > 0 /\ hasValue,
     value |-> IF n > 0 /\ hasValue THEN value ELSE <<>>]

\* ---------------------------------------------------------- parse_output
EmptyList(data) == data.kind = "list" /\ data.n = 0

MissingValueMut(data) == FALSE
MissingValue(data) == ~data.hasValue

Undersized(bytes) == Len(bytes) < OutputBytes

\* np.frombuffer refuses a buffer whose size is no multiple of the item size
BadBufferSize(bytes) == Len(bytes) % ItemSize # 0

FromBuffer(order, bytes) ==
    [k \in 1..(Len(bytes) \div ItemSize) |-> NativeInt32(order, bytes, k - 1)]

ParseOutput(order, data) ==
    IF EmptyList(data) THEN [err |-> "EmptyResult", arr |-> <<>>]
    ELSE IF MissingValue(data) THEN [err |-> "MalformedResponse", arr |-> <<>>]
    ELSE IF Undersized(data.value) THEN [err |-> "UndersizedValue", arr |-> <<>>]
    ELSE IF BadBufferSize(data.value) THEN [err |-> "BufferSizeError", arr |-> <<>>]
    ELSE [err |-> "none", arr |-> FromBuffer(order, data.value)]

\* ---------------------------------------------------------------- argmax
BetterMut(x, best) == x >= best
Better(x, best) == x > best

\* np.argmax: scan from the front, keep the index of the running maximum
RECURSIVE ArgmaxScan(_, _, _)
ArgmaxScan(a, i, best) ==
    IF i > Len(a) THEN best
    ELSE ArgmaxScan(a, i + 1, IF Better(a[i], a[best]) THEN i ELSE best)

\* 0-based
Argmax(a) == ArgmaxScan(a, 2, 1) - 1

\* ------------------------------------------------- the kernel program
\* The program's answer for an image: 10 int32 logits in the host's byte
\* order, all zero but the logit of the image's class.
ClassOf(img) == IF img = "r1" THEN 3 ELSE IF img = "r2" THEN 7 ELSE 0
NetOutput(order, img) ==
    IF img = "blank" THEN ValueList(OutputBytes, 0, 0, 0, 0, 0)
    ELSE LET p == ItemSize * ClassOf(img) + (IF order = "little" THEN 1 ELSE ItemSize)
         IN  ValueList(OutputBytes, 0, p, 9, p, 9)

\* marker in line; the feed's lines are UTF-8 text, so line.decode() at
\* line 102 does not raise
HasMarker(line) == line = "marker"

\* ------------------------------------------------------------------ main
SizeSamples == {InputDim - 1, InputDim, InputDim + 1}
ExitCodes == {0, 1}
TimeoutTicks == Timeout * TicksPerSecond

SizeOkMut(n) == n >= InputDim
SizeOk(n) == n = InputDim

\* subprocess.run(cmd, check=True) raises on a non-zero exit status
ToolFailedMut(code) == FALSE
ToolFailed(code) == code # 0

\* binascii.hexlify: two hexadecimal digits a byte
HexLen(n) == 2 * n

UpdateCmd(path, key, nbytes, code) ==
    [op |-> "update", path |-> path, key |-> KeyBytes(key),
     dataHexLen |-> HexLen(nbytes), code |-> code]
LookupCmd(path, key, code) ==
    [op |-> "lookup", path |-> path, key |-> KeyBytes(key),
     dataHexLen |-> 0, code |-> code]

\* the input map's record after a successful bpftool map update
MapAfterUpdateMut(old, rec) == old
MapAfterUpdate(old, rec) == rec

\* where main goes once check_kernel_trace has returned
AfterVerifyMut == "lookup"
AfterVerify == "sleep"

InFlight(r) ==
    pc[r] \in {"trigger", "trace_open", "trace_loop", "trace_read", "sleep", "lookup"}

\* what bpftool -j may print for a record: an object or a list, with or
\* without the "value" field
ToolResponses(value) ==
    {Obj(TRUE, value), List(1, TRUE, value), Obj(FALSE, value), List(1, FALSE, value),
     List(0, FALSE, value)}

Fresh ==
    /\ flatSize = [r \in Req |-> 0]
    /\ inputMap = [img |-> "blank", len |-> InputDim]
    /\ execPending = [r \in Req |-> FALSE]
    /\ feed = <<>>
    /\ elapsed = [r \in Req |-> 0]
    /\ found = [r \in Req |-> FALSE]
    /\ output = [r \in Req |-> <<>>]
    /\ label = [r \in Req |-> -1]
    /\ err = [r \in Req |-> "none"]
    /\ serial = TRUE
    /\ hostOrder \in {"little", "big"}
    /\ outputMap = NetOutput(hostOrder, "blank")

Init ==
    /\ Fresh
    /\ pc = [r \in Req |-> "start"]
    /\ outData = [r \in Req |-> NoData]
    /\ log = [r \in Req |-> <<>>]
    /\ toolLog = [r \in Req |-> <<>>]

\* main, lines 111-114.  load_image is the image I/O wrapper; main checks
\* what it returns, whatever that is.
LoadImage(r) ==
    /\ pc[r] = "start"
    /\ \E n \in SizeSamples :
         /\ flatSize' = [flatSize EXCEPT ![r] = n]
         /\ pc' = [pc EXCEPT ![r] = IF SizeOk(n) THEN "update" ELSE "exit1"]
    /\ UNCHANGED <<inputMap, outputMap, execPending, feed, elapsed, found, outData,
                   output, label, err, log, toolLog, serial, hostOrder>>

\* main, line 116: update_map(INPUT_MAP_PATH, 0, flat.tobytes())
UpdateMap(r) ==
    /\ pc[r] = "update"
    /\ \E code \in ExitCodes :
         /\ toolLog' = [toolLog EXCEPT
                ![r] = Append(@, UpdateCmd(INPUT_MAP_PATH, MapKey, flatSize[r], code))]
         /\ inputMap' = IF code = 0
                        THEN MapAfterUpdate(inputMap, [img |-> r, len |-> flatSize[r]])
                        ELSE inputMap
         /\ IF ToolFailed(code)
            THEN /\ pc' = [pc EXCEPT ![r] = "crashed"]
                 /\ err' = [err EXCEPT ![r] = "ExternalToolError"]
            ELSE /\ pc' = [pc EXCEPT ![r] = "trigger"]
                 /\ err' = err
    /\ log' = [log EXCEPT ![r] = Append(@, "update")]
    /\ serial' = (serial /\ ~InFlight(Other(r)))
    /\ UNCHANGED <<flatSize, outputMap, execPending, feed, elapsed, found, outData,
                   output, label, hostOrder>>

\* main, line 117: trigger_inference()
Trigger(r) ==
    /\ pc[r] = "trigger"
    /\ execPending' = [execPending EXCEPT ![r] = TRUE]
    /\ log' = [log EXCEPT ![r] = Append(@, "trigger")]
    /\ pc' = [pc EXCEPT ![r] = "trace_open"]
    /\ UNCHANGED <<flatSize, inputMap, outputMap, feed, elapsed, found, outData,
                   output, label, err, toolLog, serial, hostOrder>>

\* check_kernel_trace, lines 93-97: open the pipe; a failure is caught at 105
TraceOpen(r) ==
    /\ pc[r] = "trace_open"
    /\ \E opened \in BOOLEAN :
         pc' = [pc EXCEPT ![r] = IF opened THEN "trace_loop" ELSE AfterVerify]
    /\ elapsed' = [elapsed EXCEPT ![r] = 0]
    /\ found' = [found EXCEPT ![r] = FALSE]
    /\ log' = [log EXCEPT ![r] = Append(@, "verify")]
    /\ UNCHANGED <<flatSize, inputMap, outputMap, execPending, feed, outData,
                   output, label, err, toolLog, serial, hostOrder>>

\* check_kernel_trace, line 98: while time.time() - start < timeout
TraceLoop(r) ==
    /\ pc[r] = "trace_loop"
    /\ pc' = [pc EXCEPT ![r] = IF elapsed[r] < TimeoutTicks THEN "trace_read"
                                ELSE AfterVerify]
    /\ UNCHANGED <<flatSize, inputMap, outputMap, execPending, feed, elapsed, found,
                   outData, output, label, err, log, toolLog, serial, hostOrder>>

\* check_kernel_trace, lines 100-104: f.readline() returns once the pipe
\* holds a line, and blocks until then
TraceRead(r) ==
    /\ pc[r] = "trace_read"
    /\ feed # <<>>
    /\ feed' = Tail(feed)
    /\ IF HasMarker(Head(feed))
       THEN /\ found' = [found EXCEPT ![r] = TRUE]
            /\ pc' = [pc EXCEPT ![r] = AfterVerify]
       ELSE /\ found' = found
            /\ pc' = [pc EXCEPT ![r] = "trace_loop"]
    /\ UNCHANGED <<flatSize, inputMap, outputMap, execPending, elapsed, outData,
                   output, label, err, log, toolLog, serial, hostOrder>>

\* main, line 126: time.sleep(0.1), "allow the BPF program to run": the
\* sleep is taken to outlast the program's run
Settle(r) ==
    /\ pc[r] = "sleep"
    /\ ~execPending[r]
    /\ log' = [log EXCEPT ![r] = Append(@, "settle")]
    /\ pc' = [pc EXCEPT ![r] = "lookup"]
    /\ UNCHANGED <<flatSize, inputMap, outputMap, execPending, feed, elapsed, found,
                   outData, output, label, err, toolLog, serial, hostOrder>>

\* main, line 127: lookup_map(OUTPUT_MAP_PATH, 0), and json.loads at line 74
LookupMap(r) ==
    /\ pc[r] = "lookup"
    /\ \E code \in ExitCodes :
         /\ toolLog' = [toolLog EXCEPT
                ![r] = Append(@, LookupCmd(OUTPUT_MAP_PATH, MapKey, code))]
         /\ IF ToolFailed(code)
            THEN /\ pc' = [pc EXCEPT ![r] = "crashed"]
                 /\ err' = [err EXCEPT ![r] = "ExternalToolError"]
                 /\ outData' = outData
            ELSE /\ pc' = [pc EXCEPT ![r] = "parse"]
                 /\ err' = err
                 /\ \E resp \in ToolResponses(outputMap) :
                      outData' = [outData EXCEPT ![r] = resp]
    /\ log' = [log EXCEPT ![r] = Append(@, "lookup")]
    /\ UNCHANGED <<flatSize, inputMap, outputMap, execPending, feed, elapsed, found,
                   output, label, serial, hostOrder>>

\* main, line 128: parse_output(out_data)
Parse(r) ==
    /\ pc[r] = "parse"
    /\ LET res == ParseOutput(hostOrder, outData[r])
       IN  /\ output' = [output EXCEPT ![r] = res.arr]
           /\ err' = [err EXCEPT ![r] = res.err]
           /\ pc' = [pc EXCEPT ![r] = IF res.err = "none" THEN "argmax" ELSE "crashed"]
    /\ log' = [log EXCEPT ![r] = Append(@, "decode")]
    /\ UNCHANGED <<flatSize, inputMap, outputMap, execPending, feed, elapsed, found,
                   outData, label, toolLog, serial, hostOrder>>

\* main, lines 131-132: predicted_digit = int(np.argmax(output))
Predict(r) ==
    /\ pc[r] = "argmax"
    /\ label' = [label EXCEPT ![r] = Argmax(output[r])]
    /\ log' = [log EXCEPT ![r] = Append(@, "argmax")]
    /\ pc' = [pc EXCEPT ![r] = "done"]
    /\ UNCHANGED <<flatSize, inputMap, outputMap, execPending, feed, elapsed, found,
                   outData, output, err, toolLog, serial, hostOrder>>

Proc(r) ==
    \/ LoadImage(r)
    \/ UpdateMap(r)
    \/ Trigger(r)
    \/ TraceOpen(r)
    \/ TraceLoop(r)
    \/ TraceRead(r)
    \/ Settle(r)
    \/ LookupMap(r)
    \/ Parse(r)
    \/ Predict(r)

\* ----------------------------------------------------------- environment
\* The kernel program runs on a system call of any process: it reads the
\* input map, writes the output map and may print its marker to the trace.
SurfaceRun(emit) ==
    /\ outputMap' = NetOutput(hostOrder, inputMap.img)
    /\ execPending' = [r \in Req |-> FALSE]
    /\ feed' = IF emit /\ Len(feed) < MaxFeed THEN Append(feed, "marker") ELSE feed
    /\ UNCHANGED <<pc, flatSize, inputMap, elapsed, found, outData, output, label,
                   err, log, toolLog, serial, hostOrder>>

\* the run a trigger is waiting for
PendingRun == (\E r \in Req : execPending[r]) /\ \E emit \in BOOLEAN : SurfaceRun(emit)

\* another tracer's line
FeedOther ==
    /\ Len(feed) < MaxFeed
    /\ feed' = Append(feed, "other")
    /\ UNCHANGED <<pc, flatSize, inputMap, outputMap, execPending, elapsed, found,
                   outData, output, label, err, log, toolLog, serial, hostOrder>>

\* wall-clock time passes for every run reading the trace
Tick ==
    /\ \E r \in Req : pc[r] \in {"trace_loop", "trace_read"} /\ elapsed[r] < TimeoutTicks
    /\ elapsed' = [r \in Req |->
                     IF pc[r] \in {"trace_loop", "trace_read"} /\ elapsed[r] < TimeoutTicks
                     THEN elapsed[r] + 1 ELSE elapsed[r]]
    /\ UNCHANGED <<pc, flatSize, inputMap, outputMap, execPending, feed, found,
                   outData, output, label, err, log, toolLog, serial, hostOrder>>

Next ==
    \/ \E r \in Req : Proc(r)
    \/ \E emit \in BOOLEAN : SurfaceRun(emit)
    \/ FeedOther
    \/ Tick

Spec == Init /\ [][Next]_vars

\* Every run takes its next step, time passes, and a triggered run of the
\* kernel program happens; the trace pipe owes nobody a line.
FairSpec ==
    /\ Init
    /\ [][Next]_vars
    /\ \A r \in Req : WF_vars(Proc(r))
    /\ WF_vars(Tick)
    /\ WF_vars(PendingRun)

\* ------------------------------------------- decoding, on sampled answers
LenSamples == {0, OutputBytes - 1} \cup (OutputBytes..(OutputBytes + MaxExtra))

GapSamples == {0, 1, 5}
ShapeSamples == {<<"obj", 1>>} \cup {<<"list", k>> : k \in 0..MaxItems}

\* an answer of the given shape around a byte list
Response(shape, hasValue, value) ==
    IF shape[1] = "obj" THEN Obj(hasValue, value) ELSE List(shape[2], hasValue, value)

\* r1 has its answer from lookup_map and r2 has not started
DecodeInit ==
    /\ Fresh
    /\ pc = [r \in Req |-> IF r = "r1" THEN "parse" ELSE "start"]
    \* byte lists with up to two bytes that differ from the rest, the second
    \* at the same offset of a later element
    /\ \E n \in LenSamples, fill \in FillSamples, v \in ByteSamples, w \in ByteSamples,
          p \in 1..(OutputBytes + MaxExtra), j \in GapSamples,
          shape \in ShapeSamples, hasValue \in BOOLEAN :
         outData = [r \in Req |->
                      IF r = "r1"
                      THEN Response(shape, hasValue,
                                    ValueList(n, fill, p, v, p + ItemSize * j, w))
                      ELSE NoData]
    /\ log = [r \in Req |-> IF r = "r1"
                            THEN <<"update", "trigger", "verify", "settle", "lookup">>
                            ELSE <<>>]
    /\ toolLog = [r \in Req |-> IF r = "r1"
                                THEN <<UpdateCmd(INPUT_MAP_PATH, MapKey, InputDim, 0),
                                       LookupCmd(OUTPUT_MAP_PATH, MapKey, 0)>>
                                ELSE <<>>]

DecodeNext ==
    \/ \E r \in Req : Parse(r)
    \/ \E r \in Req : Predict(r)

DecodeSpec == DecodeInit /\ [][DecodeNext]_vars

\* ================================================================ claims
Called(r, step) == \E i \in DOMAIN log[r] : log[r][i] = step
Decoded(r) == Called(r, "decode")
MainSteps == <<"update", "trigger", "verify", "settle", "lookup", "decode", "argmax">>
IsPrefix(s, t) == Len(s) <= Len(t) /\ s = SubSeq(t, 1, Len(s))

\* C1: an image of exactly 784 samples has update invoked on the input map
\* with key 0 and a 784-byte payload; an image of any other sample count
\* makes the run exit with status 1, with no map update, trigger, trace
\* check or map lookup at any time of the run.
C1_ShapeGate ==
    \A r \in Req :
      /\ flatSize[r] # InputDim =>
           /\ pc[r] \in {"start", "exit1"}
           /\ log[r] = <<>>
           /\ toolLog[r] = <<>>
           /\ ~execPending[r]
      /\ pc[r] = "exit1" <=> flatSize[r] \notin {0, InputDim}
      /\ flatSize[r] = InputDim /\ pc[r] # "update" =>
           /\ Len(toolLog[r]) >= 1
           /\ toolLog[r][1].op = "update"
           /\ toolLog[r][1].path = INPUT_MAP_PATH
           /\ toolLog[r][1].key = <<0, 0, 0, 0>>
           /\ toolLog[r][1].dataHexLen = 2 * 784

C1_Witness ==
    /\ pc["r1"] = "exit1" /\ flatSize["r1"] = InputDim + 1
    /\ pc["r2"] = "trigger" /\ flatSize["r2"] = InputDim
    /\ inputMap = [img |-> "r2", len |-> InputDim]

\* C2: a "value" byte list shorter than 40 bytes fails with UndersizedValue;
\* one of 40 bytes or more, whatever its length, decodes to a vector of
\* exactly 10 elements.
C2_AtLeast40Decodes ==
    \A r \in Req :
      Decoded(r) /\ outData[r].hasValue =>
        IF Len(outData[r].value) < 40
        THEN err[r] = "UndersizedValue"
        ELSE err[r] = "none" /\ Len(output[r]) = OutputDim

\* C3: an empty sequence fails with EmptyResult and an object without a
\* "value" key (given directly or as the first element of a sequence) fails
\* with MalformedResponse: two different error kinds, raised with no byte
\* interpreted, no output vector and no label.
C3_EmptyAndMalformed ==
    \A r \in Req :
      Decoded(r) /\ ~outData[r].hasValue =>
        /\ err[r] = IF outData[r].kind = "list" /\ outData[r].n = 0
                    THEN "EmptyResult" ELSE "MalformedResponse"
        /\ pc[r] = "crashed"
        /\ output[r] = <<>>
        /\ label[r] = -1
        /\ ~Called(r, "argmax")

C3_Witness ==
    /\ err["r1"] = "EmptyResult" /\ outData["r1"] = List(0, FALSE, <<>>)
    /\ err["r2"] = "MalformedResponse" /\ outData["r2"] = List(1, FALSE, <<>>)

\* C4: check_kernel_trace is never blocked in a read once its timeout has
\* elapsed, when the feed has no line to deliver.
C4_ReturnsWithinTimeout ==
    \A r \in Req :
      ~(pc[r] = "trace_read" /\ feed = <<>> /\ elapsed[r] >= TimeoutTicks)

\* C5: once the input update has succeeded, the output-map lookup is
\* eventually issued, whatever the trace check does.
C5_LookupEventuallyIssued ==
    \A r \in Req : (pc[r] = "trigger") ~> Called(r, "lookup")

\* C6: each call of update_map or lookup_map runs the tool exactly once; a
\* non-zero exit ends the run there: after a failed update no trigger, trace
\* check or lookup, after a failed lookup no output vector or label.
C6_OneInvocationNoRetry ==
    \A r \in Req :
      /\ Len(toolLog[r]) =
           Cardinality({i \in DOMAIN log[r] : log[r][i] \in {"update", "lookup"}})
      /\ \A i \in DOMAIN toolLog[r] :
           /\ toolLog[r][i].op = (IF i = 1 THEN "update" ELSE "lookup")
           /\ toolLog[r][i].code # 0 =>
                /\ i = Len(toolLog[r])
                /\ pc[r] = "crashed"
                /\ err[r] = "ExternalToolError"
                /\ log[r][Len(log[r])] = toolLog[r][i].op
                /\ output[r] = <<>>
                /\ label[r] = -1
                /\ i = 1 => log[r] = <<"update">> /\ ~execPending[r]

C6_Witness ==
    /\ pc["r1"] = "crashed" /\ Len(toolLog["r1"]) = 1 /\ toolLog["r1"][1].code = 1
    /\ pc["r2"] = "crashed" /\ Len(toolLog["r2"]) = 2 /\ toolLog["r2"][2].code = 1

\* C7: the predicted label is the 0-based index of a maximum element of the
\* output vector, and the lowest such index when the maximum occurs twice.
C7_ArgmaxFirstMax ==
    \A r \in Req :
      pc[r] = "done" =>
        /\ output[r] # <<>>
        /\ label[r] + 1 \in DOMAIN output[r]
        /\ \A i \in DOMAIN output[r] : output[r][i] <= output[r][label[r] + 1]
        /\ \A i \in 1..label[r] : output[r][i] < output[r][label[r] + 1]

C7_Witness ==
    \E r \in Req :
      /\ pc[r] = "done"
      /\ label[r] >= 1
      /\ \E i \in DOMAIN output[r] :
           i > label[r] + 1 /\ output[r][i] = output[r][label[r] + 1]

LittleEndianSigned(b, i) ==
    LET low == b[4 * i + 1] + 256 * b[4 * i + 2] + 65536 * b[4 * i + 3]
        top == b[4 * i + 4]
    IN  IF top < 128 THEN top * 16777216 + low
        ELSE (top - 256) * 16777216 + low   \* the unsigned value - 2^32
C9_LittleEndianDecode ==
    \A r \in Req :
      Decoded(r) /\ outData[r].hasValue /\ Len(outData[r].value) = 40 =>
        /\ err[r] = "none"
        /\ Len(output[r]) = OutputDim
        /\ \A i \in 0..(OutputDim - 1) :
             output[r][i + 1] = LittleEndianSigned(outData[r].value, i)

\* C10: a run that reaches the lookup has made its calls in the order
\* update, trigger, trace check, settle wait, lookup (then decode, argmax),
\* each once; the lookup follows a completed update and trigger.
C10_StepOrder ==
    \A r \in Req :
      /\ IsPrefix(log[r], MainSteps)
      /\ Called(r, "lookup") =>
           /\ SubSeq(log[r], 1, 5) = <<"update", "trigger", "verify", "settle", "lookup">>
           /\ toolLog[r][1].op = "update" /\ toolLog[r][1].code = 0
           /\ Len(toolLog[r]) = 2 /\ toolLog[r][2].op = "lookup"
      /\ pc[r] = "done" => log[r] = MainSteps

C10_Witness ==
    \E r \in Req : pc[r] = "done" /\ found[r] /\ pc[Other(r)] = "done" /\ ~found[Other(r)]

====
